---- MODULE Spec2Model ----
(***************************************************************************)
(* Model of source/api/chalicelib/sigv4.py: the SigV4 signing and dispatch *)
(* of one AMC API request by get, post and delete (Spec), of calls running *)
(* side by side (SpecConc) and of the key derivation (SpecKey); and of     *)
(* source/helper/website_helper.py, the CloudFormation custom resource     *)
(* that fills and purges the website bucket (SpecHelper).                  *)
(*                                                                         *)
(* Strings are sequences of elements.  A character is the element <<c>>;   *)
(* the output of a hash primitive is one atomic element that carries its   *)
(* arguments (<<"sha256", bytes>>, <<"hmac", key, msg>>, <<"hex", bytes>>),*)
(* so SHA-256 and HMAC are uninterpreted injective functions and a digest  *)
(* never contains a delimiter character.                                   *)
(***************************************************************************)
EXTENDS Integers, Sequences, FiniteSets, TLC

VARIABLES env, clock, ticks, call, sts_calls, sent, kd,
          calls, given, sent_by, handler, s3_log, responses

\* the state of the concurrent callers of sigv4.py
concVars == <<calls, given, sent_by>>

\* the state of helper/website_helper.py
helperVars == <<handler, s3_log, responses>>

vars == <<env, clock, ticks, call, sts_calls, sent, kd, concVars, helperVars>>

(* ------------------------------ bounds -------------------------------- *)

\* number of seconds the wall clock may advance during a run
MaxTicks == 3

(* ------------------------------ strings ------------------------------- *)

Str(t) == [i \in 1..Len(t) |-> <<t[i]>>]

Ch(c) == <<c>>

\* Python's None: a value different from every str
None == << <<"None">> >>

\* characters in code point order, with the upper-case letter of each letter
AsciiTable ==
  <<"\n", " ", ",", "-", ".", "/", "0", "1", "2", "3", "4", "5", "6", "7",
    "8", "9", ":", ";", "=", "?", "A", "B", "C", "D", "E", "F", "G", "H",
    "I", "J", "K", "L", "M", "N", "O", "P", "Q", "R", "S", "T", "U", "V",
    "W", "X", "Y", "Z", "_", "a", "b", "c", "d", "e", "f", "g", "h", "i",
    "j", "k", "l", "m", "n", "o", "p", "q", "r", "s", "t", "u", "v", "w",
    "x", "y", "z", "{", "}">>

Ord(e) == CHOOSE i \in 1..Len(AsciiTable) : AsciiTable[i] = e[1]

IsUpper(e) == Ord(e) >= Ord(Ch("A")) /\ Ord(e) <= Ord(Ch("Z"))

Lower(s) ==
  [i \in 1..Len(s) |->
     IF Len(s[i]) = 1 /\ IsUpper(s[i])
     THEN Ch(AsciiTable[Ord(s[i]) + (Ord(Ch("a")) - Ord(Ch("A")))])
     ELSE s[i]]

RECURSIVE StrLess(_, _)
StrLess(a, b) ==
  IF b = <<>> THEN FALSE
  ELSE IF a = <<>> THEN TRUE
  ELSE IF a[1] = b[1] THEN StrLess(Tail(a), Tail(b))
  ELSE Ord(a[1]) < Ord(b[1])

\* str.split(sep) for a one-character separator
RECURSIVE Split(_, _)
Split(s, d) ==
  LET at == {k \in 1..Len(s) : s[k] = d}
  IN  IF at = {} THEN <<s>>
      ELSE LET i == CHOOSE k \in at : \A j \in at : k <= j
           IN  <<SubSeq(s, 1, i - 1)>>
                 \o Split(SubSeq(s, i + 1, Len(s)), d)

\* sep.join(parts)
RECURSIVE Join(_, _)
Join(parts, sep) ==
  IF parts = <<>> THEN <<>>
  ELSE IF Len(parts) = 1 THEN parts[1]
  ELSE parts[1] \o sep \o Join(Tail(parts), sep)

\* str.encode("utf-8"): an ASCII character is one byte, e-acute is two
Utf8Char(e) ==
  IF e = Ch("e'") THEN <<Ch("xC3"), Ch("xA9")>> ELSE <<e>>

\* the bytes of the characters of s, one after the other
Utf8(s) ==
  LET wide     == {k \in 1..Len(s) : Len(Utf8Char(s[k])) = 2}
      start(i) == i + Cardinality({k \in wide : k < i})
  IN  IF wide = {} THEN s
      ELSE [j \in 1..(Len(s) + Cardinality(wide)) |->
              LET i == CHOOSE k \in 1..Len(s) :
                         start(k) <= j /\ j < start(k) + Len(Utf8Char(s[k]))
              IN  Utf8Char(s[i])[j - start(i) + 1]]

(* -------------------------- hash primitives --------------------------- *)

\* hashlib.sha256(bytes).digest()
Sha256(bytes) == << <<"sha256", bytes>> >>

\* hmac.new(key, msg, hashlib.sha256).digest()
Hmac(key, msg) == << <<"hmac", key, msg>> >>

\* .hexdigest() of a digest
Hex(digest) == << <<"hex", digest>> >>

(* ------------------------------ the clock ----------------------------- *)

IsLeap(y) == (y % 4 = 0 /\ y % 100 # 0) \/ y % 400 = 0

DaysInMonth(y, m) ==
  IF m = 2 THEN (IF IsLeap(y) THEN 29 ELSE 28)
  ELSE IF m \in {4, 6, 9, 11} THEN 30 ELSE 31

NextDay(t) ==
  IF t.D < DaysInMonth(t.Y, t.M) THEN [t EXCEPT !.D = @ + 1]
  ELSE IF t.M < 12 THEN [t EXCEPT !.D = 1, !.M = @ + 1]
  ELSE [t EXCEPT !.D = 1, !.M = 1, !.Y = @ + 1]

NextSecond(t) ==
  IF t.s < 59 THEN [t EXCEPT !.s = @ + 1]
  ELSE IF t.mi < 59 THEN [t EXCEPT !.s = 0, !.mi = @ + 1]
  ELSE IF t.h < 23 THEN [t EXCEPT !.s = 0, !.mi = 0, !.h = @ + 1]
  ELSE NextDay([t EXCEPT !.s = 0, !.mi = 0, !.h = 0])

\* the second before the last second of 2015
StartOfRun == [Y |-> 2015, M |-> 12, D |-> 31, h |-> 23, mi |-> 59, s |-> 58]

Pow10(k) == IF k = 0 THEN 1 ELSE IF k = 1 THEN 10 ELSE IF k = 2 THEN 100 ELSE 1000

Digits == <<"0", "1", "2", "3", "4", "5", "6", "7", "8", "9">>

\* zero-padded decimal field of strftime
Pad(n, w) == [i \in 1..w |-> Ch(Digits[((n \div Pow10(w - i)) % 10) + 1])]

\* t.strftime("%Y%m%dT%H%M%SZ")
StrftimeAmz(t) ==
  Pad(t.Y, 4) \o Pad(t.M, 2) \o Pad(t.D, 2) \o Str(<<"T">>)
    \o Pad(t.h, 2) \o Pad(t.mi, 2) \o Pad(t.s, 2) \o Str(<<"Z">>)

\* t.strftime("%Y%m%d")
StrftimeDate(t) == Pad(t.Y, 4) \o Pad(t.M, 2) \o Pad(t.D, 2)

(* -------------------------- module constants --------------------------- *)

SIGNED_HEADERS ==
  Str(<<"h", "o", "s", "t", ";", "x", "-", "a", "m", "z", "-", "d", "a", "t",
        "e", ";", "x", "-", "a", "m", "z", "-", "s", "e", "c", "u", "r", "i",
        "t", "y", "-", "t", "o", "k", "e", "n">>)

\* os.environ["SOLUTION_NAME"] and os.environ["VERSION"] of the deployment
SOLUTION_NAME == Str(<<"a", "m", "c", "u", "f", "a">>)

SOLUTION_VERSION == Str(<<"v", "1">>)

\* the values os.environ["AMC_ENDPOINT_URL"] may hold: a URL, or a bare host
EndpointUrls ==
  { Str(<<"h", "t", "t", "p", "s", ":", "/", "/", "h", ".", "i", "o">>),
    Str(<<"h", ".", "i", "o">>) }

\* the values os.environ["AWS_REGION"] may hold
Regions == { Str(<<"u", "s">>), Str(<<"e", "u">>) }

(* --------------------------- pure functions --------------------------- *)

sign(key, msg) == Hmac(key, Utf8(msg))

\* get_signature_key with the service name signed before the region name
get_signature_key_swapped(key, date_stamp, region_name, service_name) ==
  LET kdate    == sign(Utf8(Str(<<"A", "W", "S", "4">>) \o key), date_stamp)
      kservice == sign(kdate, service_name)
      kregion  == sign(kservice, region_name)
      ksigning == sign(kregion,
                       Str(<<"a", "w", "s", "4", "_", "r", "e", "q", "u", "e",
                             "s", "t">>))
  IN  ksigning

get_signature_key(key, date_stamp, region_name, service_name) ==
  LET kdate    == sign(Utf8(Str(<<"A", "W", "S", "4">>) \o key), date_stamp)
      kregion  == sign(kdate, region_name)
      kservice == sign(kregion, service_name)
      ksigning == sign(kservice,
                       Str(<<"a", "w", "s", "4", "_", "r", "e", "q", "u", "e",
                             "s", "t">>))
  IN  ksigning

\* get_canonical_headers without the newline after the last header
get_canonical_headers_unterminated(domain_name, amzdate, session_token) ==
  Str(<<"h", "o", "s", "t", ":">>) \o domain_name
    \o Str(<<"\n", "x", "-", "a", "m", "z", "-", "d", "a", "t", "e", ":">>)
    \o amzdate
    \o Str(<<"\n", "x", "-", "a", "m", "z", "-", "s", "e", "c", "u", "r", "i",
             "t", "y", "-", "t", "o", "k", "e", "n", ":">>)
    \o session_token

get_canonical_headers(domain_name, amzdate, session_token) ==
  Str(<<"h", "o", "s", "t", ":">>) \o domain_name
    \o Str(<<"\n", "x", "-", "a", "m", "z", "-", "d", "a", "t", "e", ":">>)
    \o amzdate
    \o Str(<<"\n", "x", "-", "a", "m", "z", "-", "s", "e", "c", "u", "r", "i",
             "t", "y", "-", "t", "o", "k", "e", "n", ":">>)
    \o session_token \o Str(<<"\n">>)

get_authorization_header(algorithm, access_key, credential_scope, signed_headers, signature) ==
  algorithm
    \o Str(<<" ", "C", "r", "e", "d", "e", "n", "t", "i", "a", "l", "=">>)
    \o access_key \o Str(<<"/">>) \o credential_scope
    \o Str(<<",", " ", "S", "i", "g", "n", "e", "d", "H", "e", "a", "d", "e",
             "r", "s", "=">>)
    \o signed_headers
    \o Str(<<",", " ", "S", "i", "g", "n", "a", "t", "u", "r", "e", "=">>)
    \o signature

\* the call handed to the requests library: no body unless data is truthy
send_request(request_url, headers, http_method, data) ==
  [ http_method |-> http_method,
    url         |-> request_url,
    headers     |-> headers,
    body        |-> IF data # None /\ data # <<>> THEN data ELSE None ]

(* ------------------------ inputs of the calls -------------------------- *)

Functions == {"get", "post", "delete"}

Paths == { Str(<<"/", "w">>), Str(<<"/", "w", "/", "d">>) }

QueryStrings == { <<>>, Str(<<"a", "=", "1">>) }

Bodies == { None, <<>>, Str(<<"{", "e'", "}">>) }

\* what sts_client.assume_role may hand back, or that it raises
AssumeRoleResults ==
  [ ok : {TRUE},
    AccessKeyId     : { None, <<>>, Str(<<"A", "K">>) },
    SecretAccessKey : { None, <<>>, Str(<<"s", "k">>) },
    SessionToken    : { Str(<<"t", "k">>) } ]
  \cup
  [ ok : {FALSE}, AccessKeyId : {None}, SecretAccessKey : {None},
    SessionToken : {None} ]

(* --------------------- one call of get/post/delete --------------------- *)

NoHeaders == [k \in {} |-> <<>>]

IdleCall ==
  [ pc |-> "idle", exc |-> "", fn |-> "", path |-> <<>>,
    request_parameters |-> <<>>, body_data |-> None,
    access_key |-> None, secret_key |-> None, session_token |-> None,
    method |-> <<>>, service |-> <<>>, region |-> <<>>, endpoint |-> <<>>,
    domain_name |-> <<>>, t |-> StartOfRun, amzdate |-> <<>>,
    datestamp |-> <<>>, canonical_uri |-> <<>>,
    canonical_querystring |-> <<>>, canonical_headers |-> <<>>,
    signed_headers |-> <<>>, payload_hash |-> <<>>,
    canonical_request |-> <<>>, algorithm |-> <<>>,
    credential_scope |-> <<>>, string_to_sign |-> <<>>,
    signing_key |-> <<>>, signature |-> <<>>,
    authorization_header |-> <<>>, headers |-> NoHeaders ]

\* entry of get(path, request_parameters), post(path, body_data), delete(path)
enter(fn, path, request_parameters, body_data) ==
  [ IdleCall EXCEPT !.pc = "start", !.fn = fn, !.path = path,
      !.request_parameters = request_parameters, !.body_data = body_data ]

\* access_key, secret_key, session_token = get_amc_api_tokens()
get_amc_api_tokens(c, assumed_role) ==
  IF assumed_role.ok
  THEN [ c EXCEPT !.pc = "tokens",
           !.access_key = assumed_role.AccessKeyId,
           !.secret_key = assumed_role.SecretAccessKey,
           !.session_token = assumed_role.SessionToken ]
  ELSE [ c EXCEPT !.pc = "raised", !.exc = "ClientError" ]

\* method, service, region, endpoint, domain_name
request_values(c, environ) ==
  LET endpoint == environ.AMC_ENDPOINT \o c.path
      parts    == Split(endpoint, Ch("/"))
      c1 == [ c EXCEPT
                !.method = IF c.fn = "get" THEN Str(<<"G", "E", "T">>)
                           ELSE IF c.fn = "post"
                                THEN Str(<<"P", "O", "S", "T">>)
                                ELSE Str(<<"D", "E", "L", "E", "T", "E">>),
                !.service = Str(<<"e", "x", "e", "c", "u", "t", "e", "-", "a",
                                  "p", "i">>),
                !.region = environ.AWS_REGION,
                !.endpoint = endpoint ]
  IN  IF Len(parts) < 3
      THEN [ c1 EXCEPT !.pc = "raised", !.exc = "IndexError" ]
      ELSE [ c1 EXCEPT !.pc = "values", !.domain_name = parts[3] ]

\* if access_key is None or secret_key is None: sys.exit()
check_keys(c) ==
  IF c.access_key = None \/ c.secret_key = None
  THEN [ c EXCEPT !.pc = "raised", !.exc = "SystemExit" ]
  ELSE [ c EXCEPT !.pc = "checked" ]

\* t = datetime.datetime.utcnow() and its two formats
read_clock(c, utcnow) ==
  [ c EXCEPT !.pc = "timed", !.t = utcnow,
      !.amzdate = StrftimeAmz(utcnow), !.datestamp = StrftimeDate(utcnow) ]

canonical_uri(c) ==
  LET parts == Split(c.endpoint, Ch("/"))
  IN  Str(<<"/">>) \o Join(SubSeq(parts, 4, Len(parts)), Str(<<"/">>))

canonical_querystring(c) ==
  IF c.fn = "get" THEN c.request_parameters ELSE <<>>

\* payload that is the empty input for post as it is for get and delete
payload_always_empty(c) == Utf8(<<>>)

\* the bytes that are hashed as the payload
payload(c) == IF c.fn = "post" THEN Utf8(c.body_data) ELSE Utf8(<<>>)

\* TASK 1: create a canonical request
canonical_request(c) ==
  LET c1 == [ c EXCEPT
                !.canonical_uri = canonical_uri(c),
                !.canonical_querystring = canonical_querystring(c),
                !.canonical_headers =
                   get_canonical_headers(c.domain_name, c.amzdate,
                                         c.session_token),
                !.signed_headers = SIGNED_HEADERS ]
  IN  IF c.fn = "post" /\ c.body_data = None
      THEN [ c1 EXCEPT !.pc = "raised", !.exc = "AttributeError" ]
      ELSE LET c2 == [ c1 EXCEPT !.payload_hash = Hex(Sha256(payload(c))) ]
           IN  [ c2 EXCEPT !.pc = "canonical",
                   !.canonical_request =
                      c2.method \o Str(<<"\n">>)
                        \o c2.canonical_uri \o Str(<<"\n">>)
                        \o c2.canonical_querystring \o Str(<<"\n">>)
                        \o c2.canonical_headers \o Str(<<"\n">>)
                        \o c2.signed_headers \o Str(<<"\n">>)
                        \o c2.payload_hash ]

\* credential_scope with the date stamp taken from a second clock reading
credential_scope_reread(c) ==
  StrftimeDate(clock) \o Str(<<"/">>) \o c.region \o Str(<<"/">>) \o c.service
    \o Str(<<"/">>)
    \o Str(<<"a", "w", "s", "4", "_", "r", "e", "q", "u", "e", "s", "t">>)

credential_scope(c) ==
  c.datestamp \o Str(<<"/">>) \o c.region \o Str(<<"/">>) \o c.service
    \o Str(<<"/">>)
    \o Str(<<"a", "w", "s", "4", "_", "r", "e", "q", "u", "e", "s", "t">>)

\* request_headers with x-amz-date formatted from a second clock reading
request_headers_reread(c, authorization_header) ==
  ("Authorization" :> authorization_header)
    @@ ("x-amz-date" :> StrftimeAmz(clock))
    @@ ("x-amz-security-token" :> c.session_token)
    @@ ("x-amzn-service-name" :> SOLUTION_NAME)
    @@ ("x-amzn-service-version" :> SOLUTION_VERSION)

\* the headers dict handed to send_request
request_headers(c, authorization_header) ==
  ("Authorization" :> authorization_header)
    @@ ("x-amz-date" :> c.amzdate)
    @@ ("x-amz-security-token" :> c.session_token)
    @@ ("x-amzn-service-name" :> SOLUTION_NAME)
    @@ ("x-amzn-service-version" :> SOLUTION_VERSION)

\* TASK 2, 3, 4: string to sign, signature, signing information
sign_request(c) ==
  LET algorithm == Str(<<"A", "W", "S", "4", "-", "H", "M", "A", "C", "-",
                         "S", "H", "A", "2", "5", "6">>)
      scope == credential_scope(c)
      string_to_sign ==
        algorithm \o Str(<<"\n">>) \o c.amzdate \o Str(<<"\n">>)
          \o scope \o Str(<<"\n">>)
          \o Hex(Sha256(Utf8(c.canonical_request)))
      signing_key ==
        get_signature_key(c.secret_key, c.datestamp, c.region, c.service)
      signature == Hex(Hmac(signing_key, Utf8(string_to_sign)))
      authorization_header ==
        get_authorization_header(algorithm, c.access_key, scope,
                                 c.signed_headers, signature)
  IN  [ c EXCEPT !.pc = "signed", !.algorithm = algorithm,
          !.credential_scope = scope, !.string_to_sign = string_to_sign,
          !.signing_key = signing_key, !.signature = signature,
          !.authorization_header = authorization_header,
          !.headers = request_headers(c, authorization_header) ]

\* request_url that appends "?" only to a non-empty query string
request_url_skip_empty(c) ==
  IF c.fn = "get" /\ c.canonical_querystring # <<>>
  THEN c.endpoint \o Str(<<"?">>) \o c.canonical_querystring
  ELSE c.endpoint

request_url(c) ==
  IF c.fn = "get"
  THEN c.endpoint \o Str(<<"?">>) \o c.canonical_querystring
  ELSE c.endpoint

\* return send_request(...)
dispatch(c) ==
  send_request(request_url(c), c.headers, c.fn,
               IF c.fn = "post" THEN c.body_data ELSE None)

(* ------------------------ states before any step --------------------- *)

\* the callers that may run get, post or delete side by side
Callers == {"a", "b"}

\* no concurrent caller has called yet
\* what a caller has handed to its call, and what STS and the clock have
\* handed to that call
NothingGiven ==
  [ args |-> <<"", <<>>, <<>>, None>>,
    assumed_role |-> [ ok |-> FALSE, AccessKeyId |-> None,
                       SecretAccessKey |-> None, SessionToken |-> None ],
    utcnow |-> StartOfRun ]

ConcIdle ==
  /\ calls = [i \in Callers |-> IdleCall]
  /\ given = [i \in Callers |-> NothingGiven]
  /\ sent_by = [i \in Callers |-> <<>>]

\* the Lambda function of website_helper.py has received no event yet
IdleHandler ==
  [ pc |-> "idle", event |-> [RequestType |-> ""], environ |-> FALSE,
    manifest |-> <<>>, idx |-> 0, replace_env_variables |-> "None",
    source_bucket |-> <<>>, source_key |-> <<>>, website_bucket |-> <<>> ]

HelperIdle ==
  /\ handler = IdleHandler
  /\ s3_log = <<>>
  /\ responses = <<>>

(* ------------------------------- actions ------------------------------- *)

NoKeyDerivation == [ input |-> <<<<>>, <<>>, <<>>, <<>>>>, out |-> <<>>, done |-> FALSE ]

Init ==
  /\ env \in [ AMC_ENDPOINT : EndpointUrls, AWS_REGION : Regions ]
  /\ clock = StartOfRun
  /\ ticks = 0
  /\ call = IdleCall
  /\ sts_calls = 0
  /\ sent = <<>>
  /\ kd = NoKeyDerivation
  /\ ConcIdle
  /\ HelperIdle

\* a caller invokes get, post or delete
Call ==
  /\ call.pc = "idle"
  /\ \E fn \in Functions, path \in Paths :
       \E q \in IF fn = "get" THEN QueryStrings ELSE {<<>>} :
         \E b \in IF fn = "post" THEN Bodies ELSE {None} :
           call' = enter(fn, path, q, b)
  /\ sts_calls' = 0
  /\ sent' = <<>>
  /\ UNCHANGED <<concVars, helperVars, env, clock, ticks, kd>>

\* the role-assumption call to STS
GetTokens ==
  /\ call.pc = "start"
  /\ \E r \in AssumeRoleResults : call' = get_amc_api_tokens(call, r)
  /\ sts_calls' = sts_calls + 1
  /\ UNCHANGED <<concVars, helperVars, env, clock, ticks, sent, kd>>

RequestValues ==
  /\ call.pc = "tokens"
  /\ call' = request_values(call, env)
  /\ UNCHANGED <<concVars, helperVars, env, clock, ticks, sts_calls, sent, kd>>

CheckKeys ==
  /\ call.pc = "values"
  /\ call' = check_keys(call)
  /\ UNCHANGED <<concVars, helperVars, env, clock, ticks, sts_calls, sent, kd>>

ReadClock ==
  /\ call.pc = "checked"
  /\ call' = read_clock(call, clock)
  /\ UNCHANGED <<concVars, helperVars, env, clock, ticks, sts_calls, sent, kd>>

CanonicalRequest ==
  /\ call.pc = "timed"
  /\ call' = canonical_request(call)
  /\ UNCHANGED <<concVars, helperVars, env, clock, ticks, sts_calls, sent, kd>>

SignRequest ==
  /\ call.pc = "canonical"
  /\ call' = sign_request(call)
  /\ UNCHANGED <<concVars, helperVars, env, clock, ticks, sts_calls, sent, kd>>

\* SendRequest that dispatches and then dispatches once more
SendRequestAgain ==
  /\ call.pc = "signed"
  /\ sent' = Append(sent, dispatch(call))
  /\ call' = [ call EXCEPT !.pc = IF Len(sent) = 0 THEN "signed" ELSE "done" ]
  /\ UNCHANGED <<concVars, helperVars, env, clock, ticks, sts_calls, kd>>

\* the HTTP dispatch; the call returns its response
SendRequest ==
  /\ call.pc = "signed"
  /\ sent' = Append(sent, dispatch(call))
  /\ call' = [ call EXCEPT !.pc = "done" ]
  /\ UNCHANGED <<concVars, helperVars, env, clock, ticks, sts_calls, kd>>

\* the call has returned or raised; the caller may call again
Return ==
  /\ call.pc \in {"done", "raised"}
  /\ call' = IdleCall
  /\ sts_calls' = 0
  /\ sent' = <<>>
  /\ UNCHANGED <<concVars, helperVars, env, clock, ticks, kd>>

\* the wall clock advances by one second
Tick ==
  /\ ticks < MaxTicks
  /\ clock' = NextSecond(clock)
  /\ ticks' = ticks + 1
  /\ UNCHANGED <<concVars, helperVars, env, call, sts_calls, sent, kd>>

Next ==
  \/ Call
  \/ GetTokens
  \/ RequestValues
  \/ CheckKeys
  \/ ReadClock
  \/ CanonicalRequest
  \/ SignRequest
  \/ SendRequest
  \/ Return
  \/ Tick

Spec == Init /\ [][Next]_vars

(* ----------------- the key derivation on its own ---------------------- *)

\* the arguments get_signature_key is applied to
KeyInputs ==
  { Str(<<"s", "k">>), Str(<<"s", "l">>), <<>> }
  \X { Str(<<"2", "0", "1", "5", "0", "8", "3", "0">>),
       Str(<<"2", "0", "1", "5", "0", "8", "3", "1">>),
       Str(<<"2", "0", "1", "5", "0", "9", "0", "1">>) }
  \X Regions
  \X { Str(<<"e", "x", "e", "c", "u", "t", "e", "-", "a", "p", "i">>),
       Str(<<"i", "a", "m">>), Str(<<"s", "3">>) }

InitKey ==
  /\ env \in [ AMC_ENDPOINT : EndpointUrls, AWS_REGION : Regions ]
  /\ clock = StartOfRun
  /\ ticks = 0
  /\ call = IdleCall
  /\ sts_calls = 0
  /\ sent = <<>>
  /\ \E x \in KeyInputs : kd = [ input |-> x, out |-> <<>>, done |-> FALSE ]
  /\ ConcIdle
  /\ HelperIdle

\* signing_key = get_signature_key(secret_key, datestamp, region, service)
DeriveKey ==
  /\ ~kd.done
  /\ kd' = [ kd EXCEPT !.done = TRUE,
               !.out = get_signature_key(kd.input[1], kd.input[2],
                                         kd.input[3], kd.input[4]) ]
  /\ UNCHANGED <<concVars, helperVars, env, clock, ticks, call, sts_calls, sent>>

\* the next derivation, with other arguments
NextKeyInput ==
  /\ kd.done
  /\ \E x \in KeyInputs : kd' = [ input |-> x, out |-> <<>>, done |-> FALSE ]
  /\ UNCHANGED <<concVars, helperVars, env, clock, ticks, call, sts_calls, sent>>

NextKey == DeriveKey \/ NextKeyInput

SpecKey == InitKey /\ [][NextKey]_vars

(* ------------------------ calls side by side --------------------------- *)

\* the calls the concurrent callers make
ConcArgs ==
  { <<"get", Str(<<"/", "w">>), Str(<<"a", "=", "1">>), None>>,
    <<"post", Str(<<"/", "w", "/", "d">>), <<>>, Str(<<"{", "e'", "}">>)>>,
    <<"delete", Str(<<"/", "w">>), <<>>, None>> }

\* what assume_role hands to the concurrent calls
ConcRoleResults ==
  { [ ok |-> TRUE, AccessKeyId |-> Str(<<"A", "K">>),
      SecretAccessKey |-> Str(<<"s", "k">>),
      SessionToken |-> Str(<<"t", "k">>) ],
    [ ok |-> TRUE, AccessKeyId |-> Str(<<"A", "L">>),
      SecretAccessKey |-> Str(<<"s", "l">>),
      SessionToken |-> Str(<<"t", "l">>) ],
    [ ok |-> FALSE, AccessKeyId |-> None, SecretAccessKey |-> None,
      SessionToken |-> None ] }

\* one frame for all callers: the locals kept as module-level variables
frame_shared(i) == calls["a"]

\* the locals of the call of caller i: the frame of its function call
frame(i) == calls[i]

InitConc ==
  /\ env \in [ AMC_ENDPOINT : EndpointUrls, AWS_REGION : Regions ]
  /\ clock = StartOfRun
  /\ ticks = 0
  /\ call = IdleCall
  /\ sts_calls = 0
  /\ sent = <<>>
  /\ kd = NoKeyDerivation
  /\ ConcIdle
  /\ HelperIdle

ConcCall(i) ==
  /\ frame(i).pc = "idle"
  /\ \E a \in ConcArgs :
       /\ calls' = [calls EXCEPT ![i] = enter(a[1], a[2], a[3], a[4])]
       /\ given' = [given EXCEPT ![i].args = a]
  /\ UNCHANGED <<sent_by, helperVars, env, clock, ticks, call, sts_calls, sent, kd>>

ConcGetTokens(i) ==
  /\ frame(i).pc = "start"
  /\ \E r \in ConcRoleResults :
       /\ calls' = [calls EXCEPT ![i] = get_amc_api_tokens(frame(i), r)]
       /\ given' = [given EXCEPT ![i].assumed_role = r]
  /\ UNCHANGED <<sent_by, helperVars, env, clock, ticks, call, sts_calls, sent, kd>>

ConcRequestValues(i) ==
  /\ frame(i).pc = "tokens"
  /\ calls' = [calls EXCEPT ![i] = request_values(frame(i), env)]
  /\ UNCHANGED <<given, sent_by, helperVars, env, clock, ticks, call, sts_calls, sent, kd>>

ConcCheckKeys(i) ==
  /\ frame(i).pc = "values"
  /\ calls' = [calls EXCEPT ![i] = check_keys(frame(i))]
  /\ UNCHANGED <<given, sent_by, helperVars, env, clock, ticks, call, sts_calls, sent, kd>>

ConcReadClock(i) ==
  /\ frame(i).pc = "checked"
  /\ calls' = [calls EXCEPT ![i] = read_clock(frame(i), clock)]
  /\ given' = [given EXCEPT ![i].utcnow = clock]
  /\ UNCHANGED <<sent_by, helperVars, env, clock, ticks, call, sts_calls, sent, kd>>

ConcCanonicalRequest(i) ==
  /\ frame(i).pc = "timed"
  /\ calls' = [calls EXCEPT ![i] = canonical_request(frame(i))]
  /\ UNCHANGED <<given, sent_by, helperVars, env, clock, ticks, call, sts_calls, sent, kd>>

ConcSignRequest(i) ==
  /\ frame(i).pc = "canonical"
  /\ calls' = [calls EXCEPT ![i] = sign_request(frame(i))]
  /\ UNCHANGED <<given, sent_by, helperVars, env, clock, ticks, call, sts_calls, sent, kd>>

ConcSendRequest(i) ==
  /\ frame(i).pc = "signed"
  /\ sent_by' = [sent_by EXCEPT ![i] = Append(@, dispatch(frame(i)))]
  /\ calls' = [calls EXCEPT ![i] = [frame(i) EXCEPT !.pc = "done"]]
  /\ UNCHANGED <<given, helperVars, env, clock, ticks, call, sts_calls, sent, kd>>

NextConc ==
  \/ \E i \in Callers : ConcCall(i)
  \/ \E i \in Callers : ConcGetTokens(i)
  \/ \E i \in Callers : ConcRequestValues(i)
  \/ \E i \in Callers : ConcCheckKeys(i)
  \/ \E i \in Callers : ConcReadClock(i)
  \/ \E i \in Callers : ConcCanonicalRequest(i)
  \/ \E i \in Callers : ConcSignRequest(i)
  \/ \E i \in Callers : ConcSendRequest(i)
  \/ Tick

SpecConc == InitConc /\ [][NextConc]_vars

(* --------------------- helper/website_helper.py ------------------------ *)

RuntimeConfig ==
  Str(<<"r", "u", "n", "t", "i", "m", "e", "C", "o", "n", "f", "i", "g", ".",
        "j", "s", "o", "n">>)

\* the keys of ./webapp-manifest.json, in the order the loop visits them
Manifests ==
  { << Str(<<"a", ".", "j", "s">>) >>,
    << RuntimeConfig, Str(<<"a", ".", "j", "s">>) >>,
    << Str(<<"a", ".", "j", "s">>), RuntimeConfig >> }

\* event["ResourceProperties"] as CloudFormation may send it
ResourceProperties ==
  { [ WebsiteCodeBucket |-> Str(<<"s", "r", "c">>),
      WebsiteCodePrefix |-> Str(<<"w", "e", "b">>),
      DeploymentBucket  |-> Str(<<"s", "i", "t", "e", ".", "s", "3">>) ],
    [ DeploymentBucket  |-> Str(<<"s", "i", "t", "e", ".", "s", "3">>) ],
    [ WebsiteCodeBucket |-> Str(<<"s", "r", "c">>) ] }

\* the events lambda_handler may receive
Events ==
  { [ RequestType |-> t, ResourceProperties |-> p ] :
      t \in {"Create", "Update", "Delete", "Replace"},
      p \in ResourceProperties }
  \cup { [ ResourceProperties |-> p ] : p \in ResourceProperties }
  \cup { [ RequestType |-> t ] : t \in {"Create", "Delete"} }

\* dict[key] raises KeyError
KeyError(dict, key) == key \notin DOMAIN dict

\* send_response(event, context, response_status, response_data)
send_response(sent_so_far, response_status, message) ==
  Append(sent_so_far, [ Status |-> response_status, Message |-> message ])

\* one request to S3 and whether it returned or raised
S3Call(op, bucket, key, ok) ==
  [ op |-> op, bucket |-> bucket, key |-> key, ok |-> ok ]

\* CloudFormation invokes the Lambda function
Invoke ==
  /\ handler.pc = "idle"
  /\ \E e \in Events, environ \in BOOLEAN, manifest \in Manifests :
       handler' = [ IdleHandler EXCEPT !.pc = "lambda_handler", !.event = e,
                      !.environ = environ, !.manifest = manifest ]
  /\ s3_log' = <<>>
  /\ responses' = <<>>
  /\ UNCHANGED <<concVars, env, clock, ticks, call, sts_calls, sent, kd>>

\* lambda_handler: the branch on event["RequestType"]
LambdaHandler ==
  /\ handler.pc = "lambda_handler"
  /\ IF KeyError(handler.event, "RequestType")
     THEN /\ responses' = send_response(responses, "FAILED",
                                         "Exception during processing")
          /\ handler' = [handler EXCEPT !.pc = "done"]
     ELSE IF handler.event.RequestType \in {"Create", "Update"}
     THEN /\ handler' = [handler EXCEPT !.pc = "cs_props"]
          /\ UNCHANGED responses
     ELSE IF handler.event.RequestType = "Delete"
     THEN /\ handler' = [handler EXCEPT !.pc = "pb_props"]
          /\ UNCHANGED responses
     ELSE /\ responses' = send_response(responses, "FAILED",
                                         "Unexpected event received")
          /\ handler' = [handler EXCEPT !.pc = "done"]
  /\ UNCHANGED <<s3_log, concVars, env, clock, ticks, call, sts_calls, sent, kd>>

\* copy_source: the values of the CloudFormation event
CsProps ==
  /\ handler.pc = "cs_props"
  /\ IF \/ KeyError(handler.event, "ResourceProperties")
        \/ \E k \in {"WebsiteCodeBucket", "WebsiteCodePrefix",
                     "DeploymentBucket"} :
             KeyError(handler.event.ResourceProperties, k)
     THEN /\ responses' = send_response(responses, "FAILED",
                                         "Failed to retrieve required values")
          /\ handler' = [handler EXCEPT !.pc = "done"]
     ELSE /\ handler' =
               [ handler EXCEPT !.pc = "cs_environ",
                   !.source_bucket =
                      handler.event.ResourceProperties.WebsiteCodeBucket,
                   !.source_key =
                      handler.event.ResourceProperties.WebsiteCodePrefix,
                   !.website_bucket =
                      Split(handler.event.ResourceProperties.DeploymentBucket,
                            Ch("."))[1] ]
          /\ UNCHANGED responses
  /\ UNCHANGED <<s3_log, concVars, env, clock, ticks, call, sts_calls, sent, kd>>

\* copy_source: the custom environment variables, and the manifest
CsEnviron ==
  /\ handler.pc = "cs_environ"
  /\ handler' =
       IF ~handler.environ
       THEN [ handler EXCEPT !.pc = "cs_success",
                !.replace_env_variables = "False" ]
       ELSE [ handler EXCEPT !.replace_env_variables = "True", !.idx = 1,
                !.pc = IF handler.manifest = <<>> THEN "cs_success"
                       ELSE "cs_copy" ]
  /\ UNCHANGED <<s3_log, responses, concVars, env, clock, ticks, call, sts_calls, sent, kd>>

\* the handler state after the loop body for the key at idx
next_key(h) ==
  [ h EXCEPT !.idx = h.idx + 1,
      !.pc = IF h.idx + 1 > Len(h.manifest) THEN "cs_success" ELSE "cs_copy" ]

\* copy_source: s3.meta.client.copy of one key of the manifest
CsCopy ==
  /\ handler.pc = "cs_copy"
  /\ LET key == handler.manifest[handler.idx]
     IN  \E ok \in BOOLEAN :
           /\ s3_log' = Append(s3_log,
                               S3Call("copy", handler.website_bucket, key, ok))
           /\ IF ~ok
              THEN /\ responses' = send_response(responses, "FAILED",
                                                  "Unexpected event received")
                   /\ handler' = [handler EXCEPT !.pc = "cs_success"]
              ELSE /\ UNCHANGED responses
                   /\ handler' =
                        IF handler.replace_env_variables = "True"
                           /\ key = RuntimeConfig
                        THEN [handler EXCEPT !.pc = "cs_write"]
                        ELSE next_key(handler)
  /\ UNCHANGED <<concVars, env, clock, ticks, call, sts_calls, sent, kd>>

\* write_to_s3 of runtimeConfig.json
CsWrite ==
  /\ handler.pc = "cs_write"
  /\ \E ok \in BOOLEAN :
       /\ s3_log' = Append(s3_log,
                           S3Call("put_object", handler.website_bucket,
                                  handler.manifest[handler.idx], ok))
       /\ responses' = IF ok THEN responses
                       ELSE send_response(responses, "FAILED",
                                          "Failed to write file to s3")
  /\ handler' = next_key(handler)
  /\ UNCHANGED <<concVars, env, clock, ticks, call, sts_calls, sent, kd>>

\* copy_source: the send_response that ends it
CsSuccess ==
  /\ handler.pc = "cs_success"
  /\ responses' = send_response(responses, "SUCCESS",
                                "Resource creation successful!")
  /\ handler' = [handler EXCEPT !.pc = "done"]
  /\ UNCHANGED <<s3_log, concVars, env, clock, ticks, call, sts_calls, sent, kd>>

\* purge_bucket: the name of the bucket
PbProps ==
  /\ handler.pc = "pb_props"
  /\ IF \/ KeyError(handler.event, "ResourceProperties")
        \/ KeyError(handler.event.ResourceProperties, "DeploymentBucket")
     THEN /\ responses' = send_response(responses, "FAILED",
                                         "Unexpected event received")
          /\ handler' = [handler EXCEPT !.pc = "lh_delete"]
     ELSE /\ handler' =
               [ handler EXCEPT !.pc = "pb_logging",
                   !.website_bucket =
                      Split(handler.event.ResourceProperties.DeploymentBucket,
                            Ch("."))[1] ]
          /\ UNCHANGED responses
  /\ UNCHANGED <<s3_log, concVars, env, clock, ticks, call, sts_calls, sent, kd>>

\* PbStopLogging that goes on to purge when put_bucket_logging raises
PbStopLoggingIgnored ==
  /\ handler.pc = "pb_logging"
  /\ \E ok \in BOOLEAN :
       s3_log' = Append(s3_log,
                        S3Call("put_bucket_logging", handler.website_bucket,
                               <<>>, ok))
  /\ handler' = [handler EXCEPT !.pc = "pb_delete"]
  /\ UNCHANGED <<responses, concVars, env, clock, ticks, call, sts_calls, sent, kd>>

\* purge_bucket: s3_client.put_bucket_logging
PbStopLogging ==
  /\ handler.pc = "pb_logging"
  /\ \E ok \in BOOLEAN :
       /\ s3_log' = Append(s3_log,
                           S3Call("put_bucket_logging",
                                  handler.website_bucket, <<>>, ok))
       /\ IF ok
          THEN /\ handler' = [handler EXCEPT !.pc = "pb_delete"]
               /\ UNCHANGED responses
          ELSE /\ responses' = send_response(responses, "FAILED",
                                              "Unexpected event received")
               /\ handler' = [handler EXCEPT !.pc = "lh_delete"]
  /\ UNCHANGED <<concVars, env, clock, ticks, call, sts_calls, sent, kd>>

\* purge_bucket: bucket.objects.all().delete() and the response
PbDelete ==
  /\ handler.pc = "pb_delete"
  /\ \E ok \in BOOLEAN :
       /\ s3_log' = Append(s3_log,
                           S3Call("delete_objects", handler.website_bucket,
                                  <<>>, ok))
       /\ responses' =
            IF ok
            THEN send_response(responses, "SUCCESS",
                               "Resource creation successful!")
            ELSE send_response(responses, "FAILED",
                               "Unexpected event received")
  /\ handler' = [handler EXCEPT !.pc = "lh_delete"]
  /\ UNCHANGED <<concVars, env, clock, ticks, call, sts_calls, sent, kd>>

\* lambda_handler: the send_response after purge_bucket has returned
LhDelete ==
  /\ handler.pc = "lh_delete"
  /\ responses' = send_response(responses, "SUCCESS",
                                "Resource deletion successful!")
  /\ handler' = [handler EXCEPT !.pc = "done"]
  /\ UNCHANGED <<s3_log, concVars, env, clock, ticks, call, sts_calls, sent, kd>>

NextHelper ==
  \/ Invoke
  \/ LambdaHandler
  \/ CsProps
  \/ CsEnviron
  \/ CsCopy
  \/ CsWrite
  \/ CsSuccess
  \/ PbProps
  \/ PbStopLogging
  \/ PbDelete
  \/ LhDelete

SpecHelper == Init /\ [][NextHelper]_vars

(* ------------------------- reading the artifacts ----------------------- *)

NL == Ch("\n")

\* the newline-separated fields of the canonical request of the call
CanonicalFields == Split(call.canonical_request, NL)

\* the endpoint of the running call
Endpoint == env.AMC_ENDPOINT \o call.path

\* an endpoint that does not split into scheme, host and path
Malformed(endpoint) == Len(Split(endpoint, Ch("/"))) < 3

Missing(k) == k = None \/ k = <<>>

\* the body bytes of a dispatched request
BodyBytes(req) == IF req.body = None THEN <<>> ELSE Utf8(req.body)

(* ------------------------------- claims -------------------------------- *)

\* C1 (as stated): when the credential provider returned an access key or a
\* secret key that is None or empty, the call computes no signature and
\* dispatches no request.
C1_MissingKeysAbort ==
  ( /\ call.pc \notin {"idle", "start"}
    /\ call.exc # "ClientError"
    /\ (Missing(call.access_key) \/ Missing(call.secret_key)) )
  => (call.signature = <<>> /\ sent = <<>>)

\* C2 (as stated): when AMC_ENDPOINT + path is malformed the call aborts
\* with an error before the role-assumption call and before the dispatch.
C2_MalformedEndpointNoIO ==
  (call.pc # "idle" /\ Malformed(Endpoint))
  => ( /\ sts_calls = 0
       /\ sent = <<>>
       /\ call.pc \in {"start", "raised"} )

\* C3 (as stated): post with body_data None hashes the empty byte sequence
\* and goes on to sign and dispatch; the absent body makes no call fail.
C3_AbsentBodyIsEmpty ==
  ( /\ call.fn = "post"
    /\ call.body_data = None
    /\ call.pc \in {"canonical", "signed", "done", "raised"}
    /\ call.exc \notin {"ClientError", "IndexError", "SystemExit"} )
  => ( /\ call.pc # "raised"
       /\ call.payload_hash = Hex(Sha256(<<>>)) )

\* C4: a call invokes the credential provider exactly once and before any
\* signing step, dispatches at most once and only after the provider
\* returned and the Authorization header was computed, and dispatches
\* nothing when role assumption failed.
C4_OnceAndInOrder ==
  /\ sts_calls <= 1
  /\ Len(sent) <= 1
  /\ (call.pc \notin {"idle", "start"}) => sts_calls = 1
  /\ ( \/ call.amzdate # <<>>
       \/ call.canonical_request # <<>>
       \/ call.string_to_sign # <<>>
       \/ call.signature # <<>> )
     => (sts_calls = 1 /\ call.session_token # None)
  /\ (sent # <<>>)
     => ( /\ call.pc = "done"
          /\ call.exc = ""
          /\ call.session_token # None
          /\ call.authorization_header # <<>>
          /\ sent[1].headers["Authorization"] = call.authorization_header )
  /\ (call.exc = "ClientError")
     => (call.pc = "raised" /\ sent = <<>> /\ call.signature = <<>>)

C4_Witness == call.pc = "done" /\ Len(sent) = 1 /\ sts_calls = 1

\* C5: the payload hash in the canonical request is the digest of the body
\* that is dispatched: for post the digest of body_data, which is sent
\* unchanged (an empty one as no body); for get and delete the digest of
\* the empty input, and no body is sent.
C5_HashOfDispatchedBody ==
  (sent # <<>>)
  => LET req  == sent[1]
         hash == CanonicalFields[Len(CanonicalFields)]
     IN  /\ hash = Hex(Sha256(BodyBytes(req)))
         /\ (call.fn = "post")
            => ( /\ hash = Hex(Sha256(Utf8(call.body_data)))
                 /\ req.body = IF call.body_data = <<>> THEN None
                               ELSE call.body_data )
         /\ (call.fn \in {"get", "delete"})
            => ( /\ hash = Hex(Sha256(<<>>))
                 /\ req.body = None )

C5_Witness ==
  /\ sent # <<>>
  /\ call.fn = "post"
  /\ sent[1].body # None
  /\ Len(Utf8(sent[1].body)) > Len(sent[1].body)

\* the query string of a URL: what follows the first "?", empty if none
UrlQuery(url) ==
  LET parts == Split(url, Ch("?"))
  IN  IF Len(parts) = 1 THEN <<>> ELSE Join(Tail(parts), Str(<<"?">>))

\* C6: the signed query string is the query string of the dispatched URL:
\* for get it is request_parameters and the URL is endpoint + "?" + it, also
\* when it is empty; for post and delete it is empty and the URL is the
\* endpoint with no "?" appended.
C6_SignedQueryIsSentQuery ==
  (sent # <<>>)
  => LET url    == sent[1].url
         signed == CanonicalFields[3]
     IN  /\ UrlQuery(url) = signed
         /\ (call.fn = "get")
            => ( /\ signed = call.request_parameters
                 /\ url = Endpoint \o Str(<<"?">>) \o call.request_parameters )
         /\ (call.fn \in {"post", "delete"})
            => ( /\ signed = <<>>
                 /\ url = Endpoint
                 /\ \A i \in 1..Len(url) : url[i] # Ch("?") )

C6_Witness ==
  /\ sent # <<>>
  /\ call.fn = "get"
  /\ call.request_parameters = <<>>
  /\ sent[1].url[Len(sent[1].url)] = Ch("?")

\* the newline-separated fields of the string to sign of the call
StringToSignFields == Split(call.string_to_sign, NL)

\* C7: the dateStamp of the credential scope and of the signing-key
\* derivation is the first eight characters of the amzDate of the string to
\* sign and of the x-amz-date header, also when the clock passes midnight
\* during the call.
C7_OneClockReading ==
  (call.pc \in {"signed", "done"})
  => LET amzdate == StringToSignFields[2]
         scope   == Split(StringToSignFields[3], Ch("/"))
     IN  /\ Len(amzdate) = 16
         /\ scope[1] = SubSeq(amzdate, 1, 8)
         /\ call.signing_key =
              get_signature_key(call.secret_key, SubSeq(amzdate, 1, 8),
                                call.region, call.service)
         /\ call.headers["x-amz-date"] = amzdate
         /\ (sent # <<>>) => sent[1].headers["x-amz-date"] = amzdate

C7_Witness ==
  /\ call.pc = "done"
  /\ sent # <<>>
  /\ StrftimeDate(clock) # call.datestamp
  /\ StrftimeDate(call.t) = call.datestamp

\* the name of a header line "name:value"
HeaderName(line) == Split(line, Ch(":"))[1]

\* the value of a header line "name:value"
HeaderValue(line) == Join(Tail(Split(line, Ch(":"))), Str(<<":">>))

\* the header lines among the fields of a canonical request: those after
\* the query string and before the blank line that precedes the signed headers
HeaderLines(fields) == SubSeq(fields, 4, Len(fields) - 3)

HeaderNames(lines) == [i \in 1..Len(lines) |-> HeaderName(lines[i])]

\* the signed-headers field among the fields of a canonical request
SignedHeadersField(fields) == fields[Len(fields) - 1]

\* C8: the canonical headers are host, x-amz-date, x-amz-security-token:
\* lower-case names in strictly ascending order, every line ended by one
\* newline, the names equal to the signed-headers list in its order, and
\* one blank line between the last header line and the signed headers.
C8_CanonicalHeaderBlock ==
  (call.pc \in {"canonical", "signed", "done"})
  => LET fields == CanonicalFields
         n      == Len(fields)
         lines  == HeaderLines(fields)
         names  == HeaderNames(lines)
         signed == SignedHeadersField(fields)
         block  == Split(call.canonical_headers, NL)
     IN  /\ n = 9
         /\ names = << Str(<<"h", "o", "s", "t">>),
                       Str(<<"x", "-", "a", "m", "z", "-", "d", "a", "t",
                             "e">>),
                       Str(<<"x", "-", "a", "m", "z", "-", "s", "e", "c",
                             "u", "r", "i", "t", "y", "-", "t", "o", "k",
                             "e", "n">>) >>
         /\ \A i \in 1..Len(names) : names[i] = Lower(names[i])
         /\ \A i \in 1..(Len(names) - 1) : StrLess(names[i], names[i + 1])
         /\ Join(names, Str(<<";">>)) = signed
         /\ Split(signed, Ch(";")) = names
         /\ block = lines \o << <<>> >>
         /\ \A i \in 1..Len(lines) : lines[i] # <<>>
         /\ fields[n - 2] = <<>>
         /\ fields[n - 3] # <<>>
         /\ signed # <<>>

C8_Witness ==
  /\ call.pc = "done"
  /\ call.fn = "get"
  /\ call.request_parameters = <<>>
  /\ Len(HeaderLines(CanonicalFields)) = 3

\* s without its first Len(prefix) characters
StripPrefix(s, prefix) == SubSeq(s, Len(prefix) + 1, Len(s))

HasPrefix(s, prefix) ==
  Len(s) >= Len(prefix) /\ SubSeq(s, 1, Len(prefix)) = prefix

\* s without a trailing comma
StripComma(s) == SubSeq(s, 1, Len(s) - 1)

InformationalHeaders ==
  { Str(<<"x", "-", "a", "m", "z", "n", "-", "s", "e", "r", "v", "i", "c",
          "e", "-", "n", "a", "m", "e">>),
    Str(<<"x", "-", "a", "m", "z", "n", "-", "s", "e", "r", "v", "i", "c",
          "e", "-", "v", "e", "r", "s", "i", "o", "n">>) }

\* C9: a dispatched request carries exactly Authorization, x-amz-date,
\* x-amz-security-token and the two informational headers; x-amz-date and
\* x-amz-security-token are the values of the canonical headers (and of the
\* string to sign), the credential scope and the signed-headers list of the
\* Authorization header are those the signature was computed with, and the
\* informational headers are not in the canonical request.
C9_SentHeadersAreSigned ==
  (sent # <<>>)
  => LET h      == sent[1].headers
         fields == CanonicalFields
         lines  == HeaderLines(fields)
         names  == HeaderNames(lines)
         sts    == StringToSignFields
         auth   == Split(h["Authorization"], Ch(" "))
         cred   == StripComma(StripPrefix(auth[2],
                      Str(<<"C", "r", "e", "d", "e", "n", "t", "i", "a", "l",
                            "=">>)))
         scope  == Tail(Split(cred, Ch("/")))
         shdrs  == StripComma(StripPrefix(auth[3],
                      Str(<<"S", "i", "g", "n", "e", "d", "H", "e", "a", "d",
                            "e", "r", "s", "=">>)))
         sig    == StripPrefix(auth[4],
                      Str(<<"S", "i", "g", "n", "a", "t", "u", "r", "e",
                            "=">>))
     IN  /\ DOMAIN h = { "Authorization", "x-amz-date", "x-amz-security-token",
                         "x-amzn-service-name", "x-amzn-service-version" }
         /\ h["x-amz-date"] = HeaderValue(lines[2])
         /\ h["x-amz-date"] = sts[2]
         /\ h["x-amz-security-token"] = HeaderValue(lines[3])
         /\ h["x-amzn-service-name"] = SOLUTION_NAME
         /\ h["x-amzn-service-version"] = SOLUTION_VERSION
         /\ Len(auth) = 4
         /\ auth[1] = sts[1]
         /\ HasPrefix(auth[2], Str(<<"C", "r", "e", "d", "e", "n", "t", "i",
                                     "a", "l", "=">>))
         /\ Join(scope, Str(<<"/">>)) = sts[3]
         /\ Len(scope) = 4
         /\ shdrs = SignedHeadersField(fields)
         /\ Split(shdrs, Ch(";")) = names
         /\ sts[4] = Hex(Sha256(Utf8(call.canonical_request)))
         /\ sig = Hex(Hmac(get_signature_key(call.secret_key, scope[1],
                                             scope[2], scope[3]),
                           Utf8(call.string_to_sign)))
         /\ \A i \in 1..Len(names) : names[i] \notin InformationalHeaders
         /\ Len(lines) = 3

C9_Witness ==
  /\ sent # <<>>
  /\ call.fn = "delete"
  /\ sent[1].headers["x-amz-date"] # StrftimeAmz(clock)

\* C10: get_signature_key(secretKey, dateStamp, region, service) is the
\* chain HMAC(HMAC(HMAC(HMAC("AWS4"+secretKey, dateStamp), region), service),
\* "aws4_request"), and arguments that differ in one place give another key.
C10_KeyIsHmacChain ==
  kd.done
  => LET x == kd.input
     IN  /\ kd.out =
              Hmac(Hmac(Hmac(Hmac(Utf8(Str(<<"A", "W", "S", "4">>) \o x[1]),
                                  Utf8(x[2])),
                             Utf8(x[3])),
                        Utf8(x[4])),
                   Utf8(Str(<<"a", "w", "s", "4", "_", "r", "e", "q", "u",
                              "e", "s", "t">>)))
         /\ \A y \in KeyInputs :
              (Cardinality({i \in 1..4 : x[i] # y[i]}) = 1)
              => get_signature_key(y[1], y[2], y[3], y[4]) # kd.out

C10_Witness ==
  /\ kd.done
  /\ kd.out # <<>>
  /\ kd.input[4] # Str(<<"e", "x", "e", "c", "u", "t", "e", "-", "a", "p",
                         "i">>)

\* what a call dispatches when it runs on its own with the arguments, the
\* assume_role result and the clock reading g
DispatchedAlone(g, environ) ==
  LET c1 == get_amc_api_tokens(enter(g.args[1], g.args[2], g.args[3],
                                     g.args[4]), g.assumed_role)
      c2 == IF c1.pc = "tokens" THEN request_values(c1, environ) ELSE c1
      c3 == IF c2.pc = "values" THEN check_keys(c2) ELSE c2
      c4 == IF c3.pc = "checked" THEN read_clock(c3, g.utcnow) ELSE c3
      c5 == IF c4.pc = "timed" THEN canonical_request(c4) ELSE c4
      c6 == IF c5.pc = "canonical" THEN sign_request(c5) ELSE c5
  IN  IF c6.pc = "signed" THEN <<dispatch(c6)>> ELSE <<>>

\* C11: when calls run side by side, under every interleaving each call
\* dispatches the URL, headers and body it dispatches when it runs alone
\* with the same arguments, credentials and clock reading, and nothing
\* before its turn to dispatch.
C11_CallsDoNotInterfere ==
  \A i \in Callers :
    /\ (calls[i].pc \in {"done", "raised"})
       => sent_by[i] = DispatchedAlone(given[i], env)
    /\ (calls[i].pc \notin {"done", "raised"}) => sent_by[i] = <<>>

C11_Witness ==
  /\ \A i \in Callers : calls[i].pc = "done" /\ Len(sent_by[i]) = 1
  /\ sent_by["a"][1].http_method # sent_by["b"][1].http_method
  /\ given["a"].utcnow # given["b"].utcnow
  /\ given["a"].assumed_role # given["b"].assumed_role

\* a response with this status has been sent
Responded(status) == \E i \in 1..Len(responses) : responses[i].Status = status

\* the key has been copied into the deployment bucket
Copied(key) ==
  \E i \in 1..Len(s3_log) :
    s3_log[i].op = "copy" /\ s3_log[i].key = key /\ s3_log[i].ok

\* C12 (as stated): on Create or Update a SUCCESS response is sent only
\* after every key of the webapp manifest has been copied to the deployment
\* bucket, also when the custom environment variables are not set and when
\* a copy raises.
C12_SuccessAfterAllCopied ==
  ( /\ handler.pc # "idle"
    /\ ~KeyError(handler.event, "RequestType")
    /\ handler.event.RequestType \in {"Create", "Update"}
    /\ Responded("SUCCESS") )
  => \A k \in 1..Len(handler.manifest) : Copied(handler.manifest[k])

\* C13: purge_bucket asks S3 to delete the objects only after
\* put_bucket_logging has returned for the same bucket; when
\* put_bucket_logging raises, no delete is asked for and a FAILED response
\* is sent.
C13_LoggingOffBeforePurge ==
  /\ \A j \in 1..Len(s3_log) :
       (s3_log[j].op = "delete_objects")
       => \E i \in 1..(j - 1) :
            /\ s3_log[i].op = "put_bucket_logging"
            /\ s3_log[i].ok
            /\ s3_log[i].bucket = s3_log[j].bucket
  /\ (\E i \in 1..Len(s3_log) :
        s3_log[i].op = "put_bucket_logging" /\ ~s3_log[i].ok)
     => ( /\ \A j \in 1..Len(s3_log) : s3_log[j].op # "delete_objects"
          /\ handler.pc \notin {"pb_logging", "pb_delete"}
          /\ Responded("FAILED") )

C13_Witness ==
  /\ handler.pc = "done"
  /\ Len(s3_log) = 2
  /\ s3_log[1].op = "put_bucket_logging"
  /\ s3_log[2].op = "delete_objects"
  /\ s3_log[2].bucket = Str(<<"s", "i", "t", "e">>)

\* C14 (as stated): for every event exactly one status response is sent:
\* never more than one, and one when the handler has finished.
C14_ExactlyOneResponse ==
  /\ Len(responses) <= 1
  /\ (handler.pc = "done") => Len(responses) = 1

\* C15 (as stated): within one event no SUCCESS response is sent after a
\* FAILED response.
C15_NoSuccessAfterFailed ==
  \A i \in 1..Len(responses) :
    \A j \in (i + 1)..Len(responses) :
      ~(responses[i].Status = "FAILED" /\ responses[j].Status = "SUCCESS")

====
